---- MODULE Spec2Model ----
(***************************************************************************)
(* A model of httpolice/report.py: the body display pipeline               *)
(* (displayable_body), the reference resolver (reference_targets), the     *)
(* piece dispatch of both backends (piece_to_text, piece_to_html), the     *)
(* text renderer (TextReport) and the hypertext renderer (HTMLReport).     *)
(*                                                                         *)
(* Strings are sequences of tokens (a token is a character or an atomic    *)
(* run of characters such as a method name); "\n" is always its own token. *)
(* Optional / sentinel values are records with a field k:                  *)
(*   [k |-> "None"], [k |-> "Unparseable"], [k |-> "bytes", v |-> <<..>>]. *)
(***************************************************************************)
EXTENDS Integers, Sequences, FiniteSets, TLC

VARIABLES
    \* displayable_body: the message under display and the value returned
    msg, result, bpc,
    \* reference_targets: the resolved value and the targets returned
    value, targets, rpc,
    \* piece dispatch: the piece and what each backend emitted for it
    cur_piece, ptext, phtml, ppc,
    \* TextReport: self.written, the text written to self.outfile, the
    \* positions of the separators write_more wrote, the number of calls made
    \* and the last call
    written, outfile, seps, calls, last,
    \* the report handed to a renderer
    report,
    \* HTMLReport: self.document, the documents written to self.outfile, and
    \* the reports rendered so far
    document, htmlout, rendered

bodyVars == <<msg, result, bpc>>
refVars == <<value, targets, rpc>>
pieceVars == <<cur_piece, ptext, phtml, ppc>>
textVars == <<written, outfile, seps, calls, last, report>>
htmlVars == <<document, htmlout, rendered>>
vars ==
    <<msg, result, bpc, value, targets, rpc, cur_piece, ptext, phtml, ppc,
      written, outfile, seps, calls, last, report, document, htmlout, rendered>>

None == [k |-> "None"]
Unparseable == [k |-> "Unparseable"]
Bytes(v) == [k |-> "bytes", v |-> v]
Text(v) == [k |-> "text", v |-> v]

\* httpolice.structure.okay
okay(x) == x.k # "None" /\ x.k # "Unparseable"

\* The parts of the state a specification does not use stay idle.
NoResult == [body |-> None, transforms |-> <<>>]
NoMessage ==
    [body |-> None, decoded_body |-> None, transfer_encoding |-> FALSE,
     content_encoding |-> FALSE, charset |-> "None"]
IdleBody == msg = NoMessage /\ result = NoResult /\ bpc = "idle"
IdleRef == value = [k |-> "obj", id |-> 0] /\ targets = <<>> /\ rpc = "idle"
NoCall == [op |-> "none", arg |-> None]
IdleText ==
    /\ written = FALSE /\ outfile = <<>> /\ seps = {}
    /\ calls = 0 /\ last = NoCall /\ report = <<>>
IdleHTML == document = [head |-> <<>>, body |-> <<>>] /\ htmlout = <<>> /\ rendered = <<>>
IdlePiece ==
    cur_piece = [k |-> "str", v |-> <<>>] /\ ptext = <<>> /\ phtml = <<>> /\ ppc = "idle"

(***************************************************************************)
(* Reference resolver                                                      *)
(***************************************************************************)

\* Bounds of the values that are resolved.
MaxId == 2
MaxEntries == 2
MaxItems == 2

\* An object is a plain object, a HeaderView over raw entries, or a list.
\* id stands for id(obj); containers share one identity, which the code
\* never reads.
Obj(id) == [k |-> "obj", id |-> id]
HeaderView(entries) == [k |-> "hv", id |-> 0, entries |-> entries]
List(items) == [k |-> "list", id |-> 0, items |-> items]

\* u'#' + unicode(id(obj))
Anchor(obj) == "#" \o ToString(obj.id)

RECURSIVE SeqsUpTo(_, _)
SeqsUpTo(S, n) ==
    IF n = 0 THEN {<<>>}
    ELSE LET shorter == SeqsUpTo(S, n - 1)
         IN shorter \cup {Append(s, x) : s \in {t \in shorter : Len(t) = n - 1}, x \in S}

\* A list handled like any other object: its own anchor.
reference_targets_flat(obj) ==
    IF obj.k = "hv"
    THEN [i \in 1..Len(obj.entries) |-> Anchor(obj.entries[i])]
    ELSE <<Anchor(obj)>>

\* lines 22-31
RECURSIVE reference_targets(_)
reference_targets(obj) ==
    IF obj.k = "hv"
    THEN [i \in 1..Len(obj.entries) |-> Anchor(obj.entries[i])]
    ELSE IF obj.k = "list"
    THEN LET RECURSIVE Refs(_)
             Refs(i) == IF i > Len(obj.items) THEN <<>>
                        ELSE reference_targets(obj.items[i]) \o Refs(i + 1)
         IN Refs(1)
    ELSE <<Anchor(obj)>>

Objs == {Obj(i) : i \in 1..MaxId}
HeaderViews == {HeaderView(e) : e \in SeqsUpTo(Objs, MaxEntries)}
\* The lists nested in a list are shorter than the list that holds them.
InnerLists == {List(e) : e \in SeqsUpTo(Objs, MaxItems - 1)}
Items == Objs \cup HeaderViews \cup InnerLists
Values == Items \cup {List(e) : e \in SeqsUpTo(Items, MaxItems)}

InitRef ==
    /\ value \in Values
    /\ targets = <<>>
    /\ rpc = "start"
    /\ IdleBody /\ IdlePiece /\ IdleText /\ IdleHTML

ReferenceTargets ==
    /\ rpc = "start"
    /\ targets' = reference_targets(value)
    /\ rpc' = "done"
    /\ UNCHANGED <<value, bodyVars, pieceVars, textVars, htmlVars>>

NextRef == ReferenceTargets

SpecRef == InitRef /\ [][NextRef]_vars

(***************************************************************************)
(* Piece model and dispatch                                                *)
(***************************************************************************)

\* Bound of the contents of a piece.
MaxPieces == 2

\* Pieces.  A Ref names a key of the context; the context maps the key to the
\* object the Ref resolves to and to the pieces shown for it.
Str(tokens) == [k |-> "str", v |-> tokens]
Info(title, url) == [k |-> "info", title |-> title, url |-> url]
Known(name, cite, title) == [k |-> "known", name |-> name, cite |-> cite, title |-> title]
Named(name) == [k |-> "named", name |-> name]
Parametrized(item) == [k |-> "param", item |-> item]
Wrapper(contents) == [k |-> "wrap", contents |-> contents]
Ref(key) == [k |-> "ref", key |-> key]
Citation(info, contents) == [k |-> "cite", info |-> info, contents |-> contents]

\* notice.Ref.resolve / notice.Ref.get_contents
RefResolve(piece, ctx) == ctx[piece.key].target
RefContents(piece, ctx) == ctx[piece.key].contents

\* unicode(piece)
Unicode(piece) ==
    CASE piece.k = "str" -> piece.v
      [] piece.k = "info" -> <<piece.title>>
      [] piece.k = "known" -> <<piece.name>>
      [] OTHER -> <<"<object>">>

IsSpace(t) == t \in {" ", "\n"}

RECURSIVE LStrip(_)
LStrip(s) == IF Len(s) > 0 /\ IsSpace(Head(s)) THEN LStrip(Tail(s)) ELSE s

RECURSIVE RStrip(_)
RStrip(s) ==
    IF Len(s) > 0 /\ IsSpace(s[Len(s)]) THEN RStrip(SubSeq(s, 1, Len(s) - 1)) ELSE s

\* unicode.strip()
Strip(s) == RStrip(LStrip(s))

\* re.sub(ur'\s+', u' ', s)
RECURSIVE CollapseSpace(_)
CollapseSpace(s) ==
    IF Len(s) = 0 THEN <<>>
    ELSE IF IsSpace(Head(s)) THEN <<" ">> \o CollapseSpace(LStrip(s))
    ELSE <<Head(s)>> \o CollapseSpace(Tail(s))

\* lines 52-55; piece_to_text(piece.info, ctx) ends in unicode(piece.info),
\* an info having neither contents nor a name
CitationText(quote, info) ==
    IF Len(quote) > 0
    THEN <<"[ldquo]">> \o quote \o <<"[rdquo] (">> \o Unicode(info) \o <<")">>
    ELSE Unicode(info)

RECURSIVE piece_to_text(_, _), pieces_to_text(_, _)

\* lines 42-43
pieces_to_text(pieces, ctx) ==
    IF Len(pieces) = 0 THEN <<>>
    ELSE piece_to_text(Head(pieces), ctx) \o pieces_to_text(Tail(pieces), ctx)

\* lines 46-63
piece_to_text(piece, ctx) ==
    CASE piece.k = "ref" -> pieces_to_text(RefContents(piece, ctx), ctx)
      [] piece.k = "cite" ->
            CitationText(CollapseSpace(Strip(pieces_to_text(piece.contents, ctx))),
                         piece.info)
      [] piece.k = "wrap" -> pieces_to_text(piece.contents, ctx)
      [] piece.k = "param" -> piece_to_text(piece.item, ctx)
      [] piece.k = "named" -> piece_to_text(piece.name, ctx)
      [] OTHER -> Unicode(piece)

\* u'\n'.join(paras)
RECURSIVE JoinLines(_)
JoinLines(paras) ==
    IF Len(paras) = 0 THEN <<>>
    ELSE IF Len(paras) = 1 THEN paras[1]
    ELSE paras[1] \o <<"\n">> \o JoinLines(Tail(paras))

\* lines 34-39
notice_to_text(the_notice, ctx) ==
    LET info == <<ToString(the_notice.ident), " ", the_notice.severity_short>>
        title == Strip(pieces_to_text(the_notice.title, ctx))
        explanation ==
            JoinLines([i \in 1..Len(the_notice.explanation) |->
                          Strip(pieces_to_text(the_notice.explanation[i], ctx))])
    IN <<"**** ">> \o info \o <<"    ">> \o title \o <<"\n">> \o explanation \o <<"\n">>

\* Hypertext: an element has a tag, attributes (name, value pairs) and
\* children; a text node has the tag "#text" and its text.
El(tag, attrs, kids) == [tag |-> tag, attrs |-> attrs, kids |-> kids, text |-> <<>>]
Txt(s) == [tag |-> "#text", attrs |-> <<>>, kids |-> <<>>, text |-> s]
Attr(name, v) == <<name, v>>

\* u', '.join(targets)
RECURSIVE JoinComma(_)
JoinComma(ts) ==
    IF Len(ts) = 0 THEN ""
    ELSE IF Len(ts) = 1 THEN ts[1]
    ELSE ts[1] \o ", " \o JoinComma(Tail(ts))

\* lines 112-122; known.citation / known.title come with the token
render_known(obj) ==
    LET cls == "known known-" \o obj.k
        titled == IF obj.title.k # "None" THEN <<Attr("title", obj.title.v)>> ELSE <<>>
    IN IF obj.cite.k # "None"
       THEN <<El("a", <<Attr("class", cls), Attr("href", obj.cite.url),
                        Attr("target", "_blank")>> \o titled,
                 <<Txt(Unicode(obj))>>)>>
       ELSE <<El("span", <<Attr("class", cls)>> \o titled, <<Txt(Unicode(obj))>>)>>

\* The quote put before the bibliographic link.
CitationHtmlQuoteFirst(info, contents, quoted) ==
    (IF Len(contents) > 0
     THEN <<El("q", <<Attr("cite", info.url)>>, quoted),
            El("span", <<>>, <<Txt(<<": ">>)>>)>>
     ELSE <<>>)
    \o <<El("cite", <<>>,
            <<El("a", <<Attr("href", info.url), Attr("target", "_blank")>>,
                 <<Txt(Unicode(info))>>)>>)>>

\* lines 94-99: quoted is pieces_to_html(piece.contents, ctx)
CitationHtml(info, contents, quoted) ==
    <<El("cite", <<>>,
         <<El("a", <<Attr("href", info.url), Attr("target", "_blank")>>,
              <<Txt(Unicode(info))>>)>>)>>
    \o (IF Len(contents) > 0
        THEN <<El("span", <<>>, <<Txt(<<": ">>)>>),
               El("q", <<Attr("cite", info.url)>>, quoted)>>
        ELSE <<>>)

RECURSIVE piece_to_html(_, _), pieces_to_html(_, _)

\* lines 83-85
pieces_to_html(pieces, ctx) ==
    IF Len(pieces) = 0 THEN <<>>
    ELSE piece_to_html(Head(pieces), ctx) \o pieces_to_html(Tail(pieces), ctx)

\* lines 88-109: the elements added to the enclosing element
piece_to_html(piece, ctx) ==
    CASE piece.k = "ref" ->
            <<El("span",
                 <<Attr("data-ref-to",
                        JoinComma(reference_targets(RefResolve(piece, ctx))))>>,
                 pieces_to_html(RefContents(piece, ctx), ctx))>>
      [] piece.k = "cite" ->
            CitationHtml(piece.info, piece.contents,
                         pieces_to_html(piece.contents, ctx))
      [] piece.k = "wrap" -> pieces_to_html(piece.contents, ctx)
      [] piece.k = "param" -> piece_to_html(piece.item, ctx)
      [] piece.k = "named" -> piece_to_html(piece.name, ctx)
      [] piece.k = "known" -> render_known(piece)
      [] OTHER -> <<El("span", <<>>, <<Txt(Unicode(piece))>>)>>

\* lines 66-80
notice_to_html(the_notice, ctx, for_example) ==
    <<El("div", <<Attr("class", "notice notice-" \o the_notice.severity)>>,
         <<El("p", <<Attr("class", "notice-heading")>>,
              (IF ~for_example
               THEN <<El("span", <<Attr("class", "notice-info")>>,
                         <<El("span", <<Attr("class", "notice-ident")>>,
                              <<Txt(<<ToString(the_notice.ident)>>)>>),
                           El("span", <<>>, <<Txt(<<" ">>)>>),
                           El("span", <<Attr("class", "notice-severity"),
                                        Attr("title", the_notice.severity)>>,
                              <<Txt(<<the_notice.severity_short>>)>>)>>),
                      El("span", <<>>, <<Txt(<<" ">>)>>)>>
               ELSE <<>>)
              \o <<El("span", <<Attr("class", "notice-title")>>,
                      pieces_to_html(the_notice.title, ctx))>>)>>
         \o [i \in 1..Len(the_notice.explanation) |->
                El("p", <<Attr("class", "notice-para")>>,
                   pieces_to_html(the_notice.explanation[i], ctx))])>>

\* The pieces rendered: plain values, known tokens, wrappers, references and
\* citations over short contents.
InfoRFC == Info("RFC 7230", "http://tools.ietf.org/html/rfc7230")
KnownHost == Known("Host", InfoRFC, Str("Host header"))
KnownFoo == Known("X-Foo", None, None)
Atoms ==
    {Str(<<"x">>), Str(<<" ">>), Str(<<>>), Str(<<"y", " ", "\n", "z">>),
     KnownHost, KnownFoo, Named(KnownFoo), Parametrized(Str(<<"p">>))}
Contents == SeqsUpTo(Atoms, MaxPieces)
Context ==
    [place |-> [target |-> List(<<HeaderView(<<Obj(1), Obj(2)>>), Obj(1)>>),
                contents |-> <<KnownHost>>],
     value |-> [target |-> Obj(2), contents |-> <<Str(<<"v">>)>>]]
Pieces ==
    Atoms \cup {Ref("place"), Ref("value")}
    \cup {Wrapper(c) : c \in Contents}
    \cup {Citation(InfoRFC, c) : c \in Contents \cup {<<Ref("value"), Str(<<" ">>)>>}}

InitPiece ==
    /\ cur_piece \in Pieces
    /\ ptext = <<>>
    /\ phtml = <<>>
    /\ ppc = "start"
    /\ IdleBody /\ IdleRef /\ IdleText /\ IdleHTML

\* piece_to_text, then piece_to_html, of the same piece
PieceToText ==
    /\ ppc = "start"
    /\ ptext' = piece_to_text(cur_piece, Context)
    /\ ppc' = "text"
    /\ UNCHANGED <<cur_piece, phtml, bodyVars, refVars, textVars, htmlVars>>

PieceToHtml ==
    /\ ppc = "text"
    /\ phtml' = piece_to_html(cur_piece, Context)
    /\ ppc' = "done"
    /\ UNCHANGED <<cur_piece, ptext, bodyVars, refVars, textVars, htmlVars>>

NextPiece == PieceToText \/ PieceToHtml

SpecPiece == InitPiece /\ [][NextPiece]_vars

(***************************************************************************)
(* Report model                                                            *)
(***************************************************************************)

\* Bounds of the reports that are rendered.
MaxHeaders == 2
MaxResp == 1
MaxExch == 1
MaxConns == 2

SomeList(v) == [k |-> "list", v |-> v]

\* `x or []`
OrEmpty(x) == IF x.k = "None" THEN <<>> ELSE x.v

\* The notice catalog (notice.notices): two notices, the first with a
\* reference in its title and a citation in its explanation.
Notice(ident, severity, short, title, explanation) ==
    [ident |-> ident, severity |-> severity, severity_short |-> short,
     title |-> title, explanation |-> explanation]
notices ==
    (1000 :> Notice(1000, "error", "E",
                    <<Str(<<"Syntax", " ", "error", " ", "in", " ">>), Ref("place")>>,
                    <<<<Str(<<"See", " ">>),
                        Citation(InfoRFC, <<Str(<<"field", "\n", "value">>)>>)>>>>))
    @@ (1277 :> Notice(1277, "comment", "C",
                       <<Str(<<" ", "Obsolete", " ">>), Ref("value")>>,
                       <<<<Str(<<"First", " ">>)>>, <<Str(<<"Second">>)>>>>))

Complaint(notice_id) == [notice_id |-> notice_id, context |-> Context]

\* Header entry number i; every second value holds non-ASCII bytes.
Entry(id, i) ==
    [id |-> id \o ".e" \o ToString(i),
     name |-> Known("X-Header-" \o ToString(i), None, None),
     value |-> IF i % 2 = 0 THEN <<"a", "C3", "A9", "FF">> ELSE <<"a">>]
Entries(id, n) == [i \in 1..n |-> Entry(id, i)]

\* A message shape: the number of header entries and the kind of body ("None",
\* "Unparseable", "bytes", or "chunked": bytes followed by a trailer of one
\* entry); noticed tells whether a notice is attached to the message.
BodyKinds == {"None", "Unparseable", "bytes", "chunked"}
Shapes == [h : 0..MaxHeaders, body : BodyKinds]
ShapeBody(shape) ==
    CASE shape.body = "None" -> None
      [] shape.body = "Unparseable" -> Unparseable
      [] OTHER -> Bytes(<<"a", "ctl", "C3", "A9">>)
MessageFields(id, shape, noticed, notice_id) ==
    [id |-> id,
     version |-> "HTTP/1.1",
     header_entries |-> Entries(id, shape.h),
     body |-> ShapeBody(shape),
     decoded_body |-> ShapeBody(shape),
     transfer_encoding |-> shape.body = "chunked",
     content_encoding |-> FALSE,
     charset |-> "None",
     trailer_entries |-> IF shape.body = "chunked"
                         THEN SomeList(Entries(id \o ".t", 1)) ELSE None,
     annotations |-> IF shape.h >= 2
                     THEN {[from_trailer |-> FALSE, index |-> 1,
                            pieces |-> <<KnownFoo, Str(<<"a", "FF">>)>>]}
                     ELSE {},
     complaints |-> IF noticed THEN SomeList(<<Complaint(notice_id)>>) ELSE None]
Request(id, shape, noticed) ==
    [k |-> "request", method |-> Known("GET", InfoRFC, Str("GET method")),
     target |-> "/"]
    @@ MessageFields(id, shape, noticed, 1277)
Response(id, shape, noticed) ==
    [k |-> "response", status |-> Known("200", InfoRFC, None), reason |-> "OK"]
    @@ MessageFields(id, shape, noticed, 1000)

Exchange(id, request, responses, complaints) ==
    [id |-> id, request |-> request, responses |-> responses,
     complaints |-> complaints]
Connection(id, exchanges, unparsed_inbound, unparsed_outbound) ==
    [id |-> id, exchanges |-> exchanges,
     unparsed_inbound |-> unparsed_inbound,
     unparsed_outbound |-> unparsed_outbound]

(***************************************************************************)
(* Text renderer                                                           *)
(***************************************************************************)

\* Bound of the write calls made on one TextReport.
MaxCalls == 3

\* A TextReport: self.written, the text written to self.outfile, and the
\* positions of the separators written by write_more.
TextReport(w, out, sp) == [written |-> w, out |-> out, seps |-> sp]

\* lines 196-198
write(self, s) == TextReport(TRUE, self.out \o s, self.seps)

\* line 202: self.write(u'\n')
write_separator(self) ==
    TextReport(TRUE, Append(self.out, "\n"), self.seps \cup {Len(self.out) + 1})

\* lines 200-203
write_more(self, s) ==
    write(IF self.written THEN write_separator(self) ELSE self, s)

UnparseableMarker == <<"\n", "-- (unparseable)", "\n">>

\* The marker written without the separator.
render_unparseable_unseparated(self, node) ==
    IF node.k = "Unparseable"
    THEN [self |-> write(self, UnparseableMarker), r |-> TRUE]
    ELSE [self |-> self, r |-> FALSE]

\* lines 205-210
render_unparseable(self, node) ==
    IF node.k = "Unparseable"
    THEN [self |-> write_more(self, UnparseableMarker), r |-> TRUE]
    ELSE [self |-> self, r |-> FALSE]

\* lines 212-215
RECURSIVE WriteNotices(_, _)
WriteNotices(self, complaints) ==
    IF Len(complaints) = 0 THEN self
    ELSE LET c == Head(complaints)
         IN WriteNotices(write_more(self, notice_to_text(notices[c.notice_id], c.context)),
                         Tail(complaints))
render_notices(self, node) == WriteNotices(self, OrEmpty(node.complaints))

\* lines 217-219
render_request_line(self, req) ==
    write_more(self, <<">> ">> \o Unicode(req.method)
                     \o <<" ", req.target, " ", req.version, "\n">>)

\* lines 221-224
render_status_line(self, resp) ==
    write_more(self, <<"<< ", resp.version, " ">> \o Unicode(resp.status)
                     \o <<" ", resp.reason, "\n">>)

\* entry.value.decode('ascii', 'ignore')
IsAsciiByte(x) == x \notin {"C3", "A9", "FF"}
AsciiIgnore(bytes) == SelectSeq(bytes, IsAsciiByte)

EntryLine(entry) ==
    <<"++ ", entry.name.name, ": ">> \o AsciiIgnore(entry.value) \o <<"\n">>

RECURSIVE WriteEntries(_, _)
WriteEntries(self, entries) ==
    IF Len(entries) = 0 THEN self
    ELSE WriteEntries(write(self, EntryLine(Head(entries))), Tail(entries))

\* lines 230-234
WriteBodyLine(self, body) ==
    IF body.k = "Unparseable"
    THEN write(self, <<"\n", "++ (body is unparseable)", "\n">>)
    ELSE IF body.k = "bytes" /\ Len(body.v) > 0
    THEN write(self, <<"\n", "++ (", ToString(Len(body.v)),
                       " bytes of payload body not shown)", "\n">>)
    ELSE self

\* The notices of a message written before its header lines.
render_message_notices_first(self, m) ==
    WriteEntries(WriteBodyLine(WriteEntries(render_notices(self, m), m.header_entries),
                               m.body),
                 OrEmpty(m.trailer_entries))

\* lines 226-239
render_message(self, m) ==
    render_notices(
        WriteEntries(WriteBodyLine(WriteEntries(self, m.header_entries), m.body),
                     OrEmpty(m.trailer_entries)),
        m)

SeparatorLine == <<"================================", "\n">>

\* lines 245-248
RenderRequestSlot(self, request) ==
    IF request.k = "None" THEN self
    ELSE LET u == render_unparseable(self, request)
         IN IF u.r THEN u.self
            ELSE render_message(render_request_line(u.self, request), request)

\* lines 249-252
RECURSIVE RenderResponses(_, _)
RenderResponses(self, responses) ==
    IF Len(responses) = 0 THEN self
    ELSE LET u == render_unparseable(self, Head(responses))
             done == IF u.r THEN u.self
                     ELSE render_message(render_status_line(u.self, Head(responses)),
                                         Head(responses))
         IN RenderResponses(done, Tail(responses))

\* lines 242-252
RECURSIVE RenderExchanges(_, _)
RenderExchanges(self, exchanges) ==
    IF Len(exchanges) = 0 THEN self
    ELSE LET exch == Head(exchanges)
             s1 == render_notices(write_more(self, SeparatorLine), exch)
             s2 == RenderRequestSlot(s1, exch.request)
             s3 == RenderResponses(s2, OrEmpty(exch.responses))
         IN RenderExchanges(s3, Tail(exchanges))

\* lines 241-261
render_connection(self, connection) ==
    LET s1 == RenderExchanges(self, connection.exchanges)
        s2 == IF connection.unparsed_inbound > 0
              THEN write_more(s1, <<"++ ", ToString(connection.unparsed_inbound),
                                    " unparsed bytes remaining on the request stream",
                                    "\n">>)
              ELSE s1
    IN IF connection.unparsed_outbound > 0
       THEN write(s2, <<"++ ", ToString(connection.unparsed_outbound),
                        " unparsed bytes remaining on the response stream", "\n">>)
       ELSE s2

\* lines 263-265
RECURSIVE render_all(_, _)
render_all(self, connections) ==
    IF Len(connections) = 0 THEN self
    ELSE render_all(render_connection(self, Head(connections)), Tail(connections))

Self == TextReport(written, outfile, seps)
Becomes(self) ==
    /\ written' = self.written
    /\ outfile' = self.out
    /\ seps' = self.seps

\* TextReport.__init__, lines 192-194
InitTextReport ==
    /\ written = FALSE /\ outfile = <<>> /\ seps = {}
    /\ calls = 0 /\ last = NoCall
    /\ IdleBody /\ IdleRef /\ IdlePiece /\ IdleHTML

NonText == <<bodyVars, refVars, pieceVars, htmlVars>>

\* Sequences of write_more calls (and of its caller render_unparseable)
Strings == {<<>>, <<"A">>, <<"B">>}

WriteMore(s) ==
    /\ calls < MaxCalls
    /\ Becomes(write_more(Self, s))
    /\ calls' = calls + 1
    /\ last' = [op |-> "write_more", arg |-> s]
    /\ UNCHANGED <<report, NonText>>

RenderUnparseable(node) ==
    /\ calls < MaxCalls
    /\ Becomes(render_unparseable(Self, node).self)
    /\ calls' = calls + 1
    /\ last' = [op |-> "render_unparseable", arg |-> node]
    /\ UNCHANGED <<report, NonText>>

NextWrite ==
    \/ \E s \in Strings : WriteMore(s)
    \/ \E node \in {Unparseable, None} : RenderUnparseable(node)

InitWrite == InitTextReport /\ report = <<>>

SpecWrite == InitWrite /\ [][NextWrite]_vars

\* The reports rendered as text: every connection of a report is the same
\* connection, every exchange of a connection the same exchange, and every
\* parsed message of an exchange has the same shape.
RequestKinds == {"None", "Unparseable", "request"}
RequestSlot(kind, shape, noticed) ==
    CASE kind = "None" -> None
      [] kind = "Unparseable" -> Unparseable
      [] OTHER -> Request("req", shape, noticed)
ResponseSlot(kind, shape, noticed) ==
    IF kind = "Unparseable" THEN Unparseable ELSE Response("resp", shape, noticed)
Copies(x, n) == [i \in 1..n |-> x]
ResponsePatterns ==
    {None} \cup {SomeList(p) : p \in SeqsUpTo({"Unparseable", "response"}, MaxResp)}
ResponseList(pattern, shape, noticed) ==
    IF pattern.k = "None" THEN None
    ELSE SomeList([i \in 1..Len(pattern.v) |->
                      ResponseSlot(pattern.v[i], shape, noticed)])
TextReportOf(shape, rq, rqn, rs, rsn, c, ne, ui, uo, nc) ==
    Copies(Connection("conn",
                      Copies(Exchange("exch", RequestSlot(rq, shape, rqn),
                                      ResponseList(rs, shape, rsn), c), ne),
                      ui, uo),
           nc)
Leftovers == {0, 7}

InitText ==
    /\ InitTextReport
    /\ \E shape \in Shapes, rq \in RequestKinds, rqn \in BOOLEAN,
          rs \in ResponsePatterns, rsn \in BOOLEAN,
          c \in {None, SomeList(<<Complaint(1277)>>)},
          ne \in 0..MaxExch, ui \in Leftovers, uo \in Leftovers, nc \in 0..MaxConns :
         report = TextReportOf(shape, rq, rqn, rs, rsn, c, ne, ui, uo, nc)

RenderConnection ==
    /\ calls = 0
    /\ Len(report) = 1
    /\ Becomes(render_connection(Self, report[1]))
    /\ calls' = 1
    /\ last' = [op |-> "render_connection", arg |-> None]
    /\ UNCHANGED <<report, NonText>>

RenderAll ==
    /\ calls = 0
    /\ Becomes(render_all(Self, report))
    /\ calls' = 1
    /\ last' = [op |-> "render_all", arg |-> None]
    /\ UNCHANGED <<report, NonText>>

NextText == RenderConnection \/ RenderAll

SpecText == InitText /\ [][NextText]_vars

(***************************************************************************)
(* Body display pipeline                                                   *)
(***************************************************************************)

\* Bounds of the bodies that are enumerated.
MaxUnits == 1
Extra == 1000

limit == 5000

\* Byte classes: a printable ASCII byte, an ASCII control byte (0x01), the
\* two bytes of U+00E9 in UTF-8 (0xC3 0xA9), and 0xFF, which is never valid
\* in UTF-8.
ByteClasses == {"a", "ctl", "C3", "A9", "FF"}

\* str.decode('utf-8', 'replace') at byte i.  0xC3 always starts a character:
\* followed by a continuation byte it yields U+00E9 and consumes both bytes,
\* otherwise it is replaced by U+FFFD.  A continuation byte is consumed exactly
\* when the byte before it is 0xC3, else it is replaced.  0xFF is replaced.
Utf8At(b, i) ==
    CASE b[i] = "a" -> <<"a">>
      [] b[i] = "ctl" -> <<"U+0001">>
      [] b[i] = "C3" -> IF i < Len(b) /\ b[i + 1] = "A9"
                        THEN <<"U+00E9">> ELSE <<"U+FFFD">>
      [] b[i] = "A9" -> IF i > 1 /\ b[i - 1] = "C3" THEN <<>> ELSE <<"U+FFFD">>
      [] OTHER -> <<"U+FFFD">>

RECURSIVE Utf8Range(_, _, _)
Utf8Range(b, lo, hi) ==
    IF lo > hi THEN <<>>
    ELSE IF lo = hi THEN Utf8At(b, lo)
    ELSE LET mid == (lo + hi) \div 2
         IN Utf8Range(b, lo, mid) \o Utf8Range(b, mid + 1, hi)

\* str.decode('iso8859-1', 'replace'): one character per byte, never fails.
Latin1Char(x) ==
    CASE x = "a" -> "a"
      [] x = "ctl" -> "U+0001"
      [] x = "C3" -> "U+00C3"
      [] x = "A9" -> "U+00A9"
      [] OTHER -> "U+00FF"

\* codecs.lookup(charset).name (the lookup ignores case and knows aliases),
\* or "LookupError"
CodecsLookup(charset) ==
    CASE charset \in {"UTF-8", "utf-8", "utf8"} -> "utf-8"
      [] charset = "iso-8859-1" -> "iso8859-1"
      [] OTHER -> "LookupError"

\* r.decode(codec, 'replace')
Decode(b, codec) ==
    IF codec = "utf-8" THEN Utf8Range(b, 1, Len(b))
    ELSE [i \in 1..Len(b) |-> Latin1Char(b[i])]

\* httpolice.util.text.has_nonprintable / printable
NonPrintable(c) == c = "U+0001"
has_nonprintable(r) == \E i \in 1..Len(r) : NonPrintable(r[i])
printable(r) == [i \in 1..Len(r) |-> IF NonPrintable(r[i]) THEN "U+FFFD" ELSE r[i]]

\* message.body_charset(msg) or 'UTF-8'
BodyCharset(m) == IF m.charset = "None" THEN "UTF-8" ELSE m.charset

NoteTE == <<"removing Transfer-Encoding">>
NoteCE == <<"removing Content-Encoding">>
NoteCharset(charset) == <<"decoding from ", charset>>
NotePrintable == <<"replacing non-printable characters with the U+FFFD sign">>
NoteLimit == <<"taking the first ", ToString(limit), " characters">>

\* lines 159-160
AfterTransferEncoding(m) ==
    IF m.transfer_encoding THEN <<NoteTE>> ELSE <<>>

\* A lookup failure falling back to the single-byte codec instead of UTF-8.
ResolveCodecLatin(charset) ==
    IF CodecsLookup(charset) = "LookupError" THEN CodecsLookup("iso-8859-1")
    ELSE CodecsLookup(charset)

\* lines 166-170: the codec the body is decoded with
ResolveCodec(charset) ==
    IF CodecsLookup(charset) = "LookupError" THEN CodecsLookup("utf-8")
    ELSE CodecsLookup(charset)

\* line 172-173
CharsetNote(codec, charset) ==
    IF codec # "utf-8" THEN <<NoteCharset(charset)>> ELSE <<>>

\* lines 162-175: the decoded text and the notes the decoding adds
DecodeStep(m) ==
    IF okay(m.decoded_body)
    THEN LET charset == BodyCharset(m)
             codec == ResolveCodec(charset)
         IN [r |-> Decode(m.decoded_body.v, codec),
             t |-> (IF m.content_encoding THEN <<NoteCE>> ELSE <<>>)
                   \o CharsetNote(codec, charset)]
    ELSE [r |-> Decode(m.body.v, "utf-8"), t |-> <<>>]

\* lines 177-180
PrintableStep(s) ==
    IF has_nonprintable(s.r)
    THEN [r |-> printable(s.r), t |-> Append(s.t, NotePrintable)]
    ELSE s

\* An off-by-one truncation: texts of exactly limit characters are cut too.
LimitStepOffByOne(s) ==
    IF Len(s.r) >= limit
    THEN [r |-> SubSeq(s.r, 1, limit - 1), t |-> Append(s.t, NoteLimit)]
    ELSE s

\* lines 182-185
LimitStep(s) ==
    IF Len(s.r) > limit
    THEN [r |-> SubSeq(s.r, 1, limit), t |-> Append(s.t, NoteLimit)]
    ELSE s

\* The Transfer-Encoding note taken before the body is looked at.
displayable_body_te_first(m) ==
    LET t1 == AfterTransferEncoding(m)
    IN IF ~okay(m.body) THEN [body |-> m.body, transforms |-> t1]
       ELSE LET d == DecodeStep(m)
                s == LimitStep(PrintableStep([r |-> d.r, t |-> t1 \o d.t]))
            IN [body |-> Text(s.r), transforms |-> s.t]

\* lines 154-187
displayable_body(m) ==
    IF ~okay(m.body) THEN [body |-> m.body, transforms |-> <<>>]
    ELSE LET t1 == AfterTransferEncoding(m)
             d == DecodeStep(m)
             s == LimitStep(PrintableStep([r |-> d.r, t |-> t1 \o d.t]))
         IN [body |-> Text(s.r), transforms |-> s.t]

\* The messages displayed: a body is a short prefix, made of at most MaxUnits
\* units (a single byte of any class, or the two bytes of U+00E9), followed
\* by a run of printable ASCII bytes.
ByteUnits == {<<x>> : x \in ByteClasses} \cup {<<"C3", "A9">>}

RECURSIVE Prefixes(_)
Prefixes(n) ==
    IF n = 0 THEN {<<>>}
    ELSE LET shorter == Prefixes(n - 1)
         IN shorter \cup {s \o u : s \in shorter, u \in ByteUnits}

Pads == {0, limit - 1, limit + Extra}
Filler(n) == [i \in 1..n |-> "a"]
BodyBytes == {p \o Filler(n) : p \in Prefixes(MaxUnits), n \in Pads}
OtherBytes == <<"FF", "ctl", "a">>
Charsets == {"None", "UTF-8", "iso-8859-1", "bogus-xyz"}

\* decoded_body is unparseable, the body itself (no content coding
\* to strip: "same"), or other bytes (a coding stripped).
BodyValues == {None, Unparseable} \cup {Bytes(x) : x \in BodyBytes}
DecodedKinds == {"Unparseable", "other", "same"}
DecodedBody(kind, body) ==
    CASE kind = "Unparseable" -> Unparseable
      [] kind = "other" -> Bytes(OtherBytes)
      [] OTHER -> body


InitBody ==
    /\ \E b \in BodyValues, d \in DecodedKinds, te \in BOOLEAN, ce \in BOOLEAN,
          cs \in Charsets :
         msg = [body |-> b, decoded_body |-> DecodedBody(d, b),
                transfer_encoding |-> te, content_encoding |-> ce, charset |-> cs]
    /\ result = NoResult
    /\ bpc = "start"
    /\ IdleRef /\ IdlePiece /\ IdleText /\ IdleHTML

DisplayableBody ==
    /\ bpc = "start"
    /\ result' = displayable_body(msg)
    /\ bpc' = "done"
    /\ UNCHANGED <<msg, refVars, pieceVars, textVars, htmlVars>>

NextBody == DisplayableBody

SpecBody == InitBody /\ [][NextBody]_vars

(***************************************************************************)
(* Hypertext renderer                                                      *)
(***************************************************************************)

\* Bounds of the render_all calls made on one HTMLReport and of the
\* connection blocks its document holds.
MaxRenders == 2
MaxBlocks == 3

\* lines 14-19; type_name is type(obj).__name__, id is unicode(id(obj))
for_object(type_name, id, extra_class) ==
    <<Attr("class", type_name \o " " \o extra_class), Attr("id", id)>>

\* r.decode('utf-8', 'ignore'): invalid bytes are dropped
Utf8Ignore(b) ==
    LET NotReplaced(c) == c # "U+FFFD"
    IN SelectSeq(Utf8Range(b, 1, Len(b)), NotReplaced)

\* httpolice.util.text.nicely_join
RECURSIVE NicelyJoin(_)
NicelyJoin(notes) ==
    IF Len(notes) = 0 THEN <<>>
    ELSE IF Len(notes) = 1 THEN notes[1]
    ELSE IF Len(notes) = 2 THEN notes[1] \o <<" and ">> \o notes[2]
    ELSE notes[1] \o <<", ">> \o NicelyJoin(Tail(notes))

\* node.collect_complaints(): the complaints of the node and of its parts
CollectComplaints(node) == OrEmpty(node.complaints)

\* lines 125-132
IncludeStylesheet ==
    <<El("link", <<Attr("rel", "stylesheet"), Attr("href", "report.css"),
                   Attr("type", "text/css")>>, <<>>)>>
IncludeScripts ==
    <<El("script", <<Attr("src", "https://code.jquery.com/jquery-1.11.3.js"),
                     Attr("type", "text/javascript")>>, <<>>),
      El("script", <<Attr("src", "report.js"), Attr("type", "text/javascript")>>, <<>>)>>

\* An HTMLReport: self.document (head and body children) and the documents
\* written to self.outfile.
HTMLReport(doc, out) == [document |-> doc, out |-> out]

\* lines 270-277
NewDocument ==
    [head |-> <<El("title", <<>>, <<Txt(<<"HTTPolice report">>)>>),
                El("meta", <<Attr("http-equiv", "Content-Type"),
                             Attr("content", "text/html; charset=utf-8")>>, <<>>)>>
              \o IncludeStylesheet \o IncludeScripts,
     body |-> <<>>]

\* lines 279-280
dump(self) == HTMLReport(self.document, Append(self.out, self.document))

RECURSIVE ConcatAll(_)
ConcatAll(ss) == IF Len(ss) = 0 THEN <<>> ELSE Head(ss) \o ConcatAll(Tail(ss))

\* lines 282-288
HTMLReport_render_notices(complaints) ==
    IF Len(complaints) > 0
    THEN <<El("div", <<Attr("class", "notices")>>,
              ConcatAll([i \in 1..Len(complaints) |->
                            notice_to_html(notices[complaints[i].notice_id],
                                           complaints[i].context, FALSE)]))>>
    ELSE <<>>

\* lines 290-296; the identity of annotated piece j of entry id is id.j
render_annotated(id, pieces) ==
    [j \in 1..Len(pieces) |->
        El("span", for_object(pieces[j].k, id \o "." \o ToString(j), ""),
           IF pieces[j].k = "str"
           THEN <<El("span", <<>>, <<Txt(printable(Utf8Ignore(pieces[j].v)))>>)>>
           ELSE render_known(pieces[j]))]

\* message.annotations.get((from_trailer, i))
Annotation(m, from_trailer, i) ==
    LET found == {a \in m.annotations : a.from_trailer = from_trailer /\ a.index = i}
    IN IF found = {} THEN None ELSE SomeList((CHOOSE a \in found : TRUE).pieces)

\* lines 298-310
render_header_entries(m, entries, from_trailer) ==
    [n \in 1..Len(entries) |->
        LET entry == entries[n]
            annotated == Annotation(m, from_trailer, n - 1)
        IN El("div", for_object("HeaderEntry", entry.id, ""),
              <<El("span", for_object("FieldName", entry.id \o ".name", ""),
                   render_known(entry.name)),
                El("span", <<>>, <<Txt(<<": ">>)>>),
                El("span", for_object("str", entry.id \o ".value", ""),
                   IF annotated.k # "None"
                   THEN render_annotated(entry.id \o ".value", annotated.v)
                   ELSE <<El("span", <<>>,
                             <<Txt(printable(Utf8Ignore(entry.value)))>>)>>)>>)]

\* lines 315-324
RenderBody(m) ==
    LET shown == displayable_body(m)
    IN IF shown.body.k = "Unparseable"
       THEN <<El("div", <<Attr("class", "review-block")>>,
                 <<El("p", <<Attr("class", "hint")>>,
                      <<Txt(<<"Payload body is unavailable.">>)>>)>>)>>
       ELSE IF shown.body.k = "text" /\ Len(shown.body.v) > 0
       THEN <<El("div", for_object("str", m.id \o ".body", "review-block"),
                 (IF Len(shown.transforms) > 0
                  THEN <<El("p", <<Attr("class", "hint")>>,
                            <<Txt(<<"Payload body after ">>
                                  \o NicelyJoin(shown.transforms) \o <<":">>)>>)>>
                  ELSE <<>>)
                 \o <<El("div", <<Attr("class", "payload-body")>>,
                         <<Txt(shown.body.v)>>)>>)>>
       ELSE <<>>

\* lines 312-329
HTMLReport_render_message(m) ==
    render_header_entries(m, m.header_entries, FALSE)
    \o RenderBody(m)
    \o (IF Len(OrEmpty(m.trailer_entries)) > 0
        THEN <<El("div", <<Attr("class", "review-block")>>,
                  <<El("p", <<Attr("class", "hint")>>,
                       <<Txt(<<"Header fields from the chunked trailer:">>)>>)>>
                  \o render_header_entries(m, m.trailer_entries.v, TRUE))>>
        ELSE <<>>)

\* lines 331-348
render_request(req) ==
    IF req.k = "Unparseable"
    THEN <<El("p", <<Attr("class", "hint")>>, <<Txt(<<"unparseable request">>)>>)>>
    ELSE <<El("div", for_object("Request", req.id, ""),
              <<El("div", <<Attr("class", "review")>>,
                   <<El("h2", <<>>, <<Txt(<<"Request">>)>>),
                     El("div", <<Attr("class", "request-line")>>,
                        <<El("span", for_object("Method", req.id \o ".method", ""),
                             render_known(req.method)),
                          El("span", <<>>, <<Txt(<<" ">>)>>),
                          El("span", <<Attr("class", "request-target")>>
                                     \o for_object("str", req.id \o ".target", ""),
                             <<Txt(<<req.target>>)>>),
                          El("span", <<>>, <<Txt(<<" ">>)>>),
                          El("span", for_object("HTTPVersion", req.id \o ".version", ""),
                             <<Txt(<<req.version>>)>>)>>)>>
                   \o HTMLReport_render_message(req))>>
              \o HTMLReport_render_notices(CollectComplaints(req))
              \o <<El("br", <<Attr("class", "clear")>>, <<>>)>>)>>

\* lines 350-368
render_response(resp) ==
    IF resp.k = "Unparseable"
    THEN <<El("p", <<Attr("class", "hint")>>, <<Txt(<<"unparseable response">>)>>)>>
    ELSE <<El("div", for_object("Response", resp.id, ""),
              <<El("div", <<Attr("class", "review")>>,
                   <<El("h2", <<>>, <<Txt(<<"Response">>)>>),
                     El("div", <<Attr("class", "status-line")>>,
                        <<El("span", for_object("HTTPVersion", resp.id \o ".version", ""),
                             <<Txt(<<resp.version>>)>>),
                          El("span", <<>>, <<Txt(<<" ">>)>>),
                          El("span", for_object("StatusCode", resp.id \o ".status", ""),
                             render_known(resp.status)
                             \o <<El("span", <<>>, <<Txt(<<" ">>)>>),
                                  El("span", for_object("str", resp.id \o ".reason", ""),
                                     <<Txt(<<resp.reason>>)>>)>>)>>)>>
                   \o HTMLReport_render_message(resp))>>
              \o HTMLReport_render_notices(CollectComplaints(resp))
              \o <<El("br", <<Attr("class", "clear")>>, <<>>)>>)>>

\* lines 371-377
RenderExchangeBlocks(exchanges) ==
    [i \in 1..Len(exchanges) |->
        LET exch == exchanges[i]
            resps == OrEmpty(exch.responses)
        IN El("div", for_object("Exchange", exch.id, ""),
              HTMLReport_render_notices(OrEmpty(exch.complaints))
              \o (IF exch.request.k # "None" THEN render_request(exch.request) ELSE <<>>)
              \o ConcatAll([j \in 1..Len(resps) |-> render_response(resps[j])]))]

\* lines 379-386
RenderLeftovers(conn) ==
    (IF conn.unparsed_inbound > 0
     THEN <<El("p", <<Attr("class", "unparsed inbound")>>,
               <<Txt(<<ToString(conn.unparsed_inbound),
                       " unparsed bytes remaining on the request stream">>)>>)>>
     ELSE <<>>)
    \o (IF conn.unparsed_outbound > 0
        THEN <<El("p", <<Attr("class", "unparsed outbound")>>,
                  <<Txt(<<ToString(conn.unparsed_outbound),
                          " unparsed bytes remaining on the response stream">>)>>)>>
        ELSE <<>>)

\* The leftover paragraphs put before the exchanges.
HTMLReport_render_connection_leftovers_first(conn) ==
    RenderLeftovers(conn) \o RenderExchangeBlocks(conn.exchanges)

\* lines 370-386: the elements added to the connection's block
HTMLReport_render_connection(conn) ==
    RenderExchangeBlocks(conn.exchanges) \o RenderLeftovers(conn)

\* lines 390-394: the blocks added to the document
ConnectionBlocks(connections) ==
    [i \in 1..Len(connections) |->
        El("div", for_object("Connection", connections[i].id, ""),
           (IF Len(connections) > 1
            THEN <<El("h1", <<>>, <<Txt(<<"Connection ", ToString(i)>>)>>)>>
            ELSE <<>>)
           \o HTMLReport_render_connection(connections[i]))]

\* The document started anew at every call.
HTMLReport_render_all_fresh_document(self, connections) ==
    dump(HTMLReport([NewDocument EXCEPT !.body = ConnectionBlocks(connections)],
                    self.out))

\* lines 388-395
HTMLReport_render_all(self, connections) ==
    dump(HTMLReport([self.document EXCEPT !.body = @ \o ConnectionBlocks(connections)],
                    self.out))

\* The connections rendered as hypertext: a connection of two exchanges (a
\* request with annotated headers and a notice, answered by a chunked response
\* with a notice; an unparseable request answered by an unparseable response)
\* with leftover request bytes, a connection of one noticed exchange (a
\* request with an unparseable body, no response) with leftover bytes on
\* both streams, and a connection of one exchange (no request, two responses
\* with bodies) without leftover bytes.
ConnA ==
    Connection("cA",
               <<Exchange("cA.x1",
                          Request("cA.x1.req", [h |-> 2, body |-> "None"], TRUE),
                          SomeList(<<Response("cA.x1.resp",
                                              [h |-> 1, body |-> "chunked"], TRUE)>>),
                          None),
                 Exchange("cA.x2", Unparseable, SomeList(<<Unparseable>>), None)>>,
               7, 0)
ConnB ==
    Connection("cB",
               <<Exchange("cB.x1",
                          Request("cB.x1.req", [h |-> 0, body |-> "Unparseable"], FALSE),
                          None, SomeList(<<Complaint(1277)>>))>>,
               3, 5)
ConnC ==
    Connection("cC",
               <<Exchange("cC.x1", None,
                          SomeList(<<Response("cC.x1.resp1",
                                              [h |-> 1, body |-> "bytes"], FALSE),
                                     Response("cC.x1.resp2",
                                              [h |-> 0, body |-> "chunked"], FALSE)>>),
                          None)>>,
               0, 0)
HTMLConnections == {ConnA, ConnB, ConnC}
HTMLReports == SeqsUpTo(HTMLConnections, MaxBlocks)

\* HTMLReport.__init__, lines 270-277
InitHTML ==
    /\ document = NewDocument
    /\ htmlout = <<>>
    /\ rendered = <<>>
    /\ IdleBody /\ IdleRef /\ IdlePiece /\ IdleText

HTMLRenderAll(connections) ==
    /\ Len(rendered) < MaxRenders
    /\ Len(document.body) + Len(connections) <= MaxBlocks
    /\ LET self == HTMLReport_render_all(HTMLReport(document, htmlout), connections)
       IN /\ document' = self.document
          /\ htmlout' = self.out
    /\ rendered' = Append(rendered, connections)
    /\ UNCHANGED <<bodyVars, refVars, pieceVars, textVars>>

NextHTML == \E connections \in HTMLReports : HTMLRenderAll(connections)

SpecHTML == InitHTML /\ [][NextHTML]_vars

(***************************************************************************)
(* Claims about the text renderer (checked under SpecWrite and SpecText)   *)
(***************************************************************************)

\* C1 as stated: whatever write_more calls were made on a fresh TextReport,
\* the output does not start with a separator, holds no two consecutive
\* separators, and writing "A" then "B" yields exactly "A\nB".
C1_NoLeadingNoDoubleSeparator ==
    /\ 1 \notin seps
    /\ \A i \in seps : i + 1 \notin seps
    /\ (calls = 2 /\ seps # {} /\ Head(outfile) = "A" /\ outfile[Len(outfile)] = "B")
          => outfile = <<"A", "\n", "B">>

\* The tokens that start a line of the transcript.
LineMarkers ==
    {"================================", "**** ", ">> ", "<< ", "++ ", "++ (",
     "++ (body is unparseable)", "-- (unparseable)"}
IsLineMarker(t) == t \in LineMarkers
Lines(out) == SelectSeq(out, IsLineMarker)
Count(out, tok) == Cardinality({i \in 1..Len(out) : out[i] = tok})
FirstIndex(out, tok) == CHOOSE i \in 1..Len(out) : out[i] = tok /\ \A j \in 1..(i - 1) : out[j] # tok

\* One connection, one exchange, a GET request with two header entries and
\* no body, one 200 response with one notice attached (and nothing else
\* noticed, no leftover bytes).
IsNoticedResponseScenario ==
    /\ last.op = "render_all"
    /\ Len(report) = 1
    /\ report[1].unparsed_inbound = 0 /\ report[1].unparsed_outbound = 0
    /\ Len(report[1].exchanges) = 1
    /\ LET exch == report[1].exchanges[1]
       IN /\ exch.complaints.k = "None"
          /\ exch.request.k = "request"
          /\ exch.request.method.name = "GET"
          /\ Len(exch.request.header_entries) = 2
          /\ exch.request.body.k = "None"
          /\ exch.request.complaints.k = "None"
          /\ exch.responses.k = "list"
          /\ Len(exch.responses.v) = 1
          /\ exch.responses.v[1].k = "response"
          /\ exch.responses.v[1].status.name = "200"
          /\ exch.responses.v[1].complaints.k = "list"
          /\ Len(exch.responses.v[1].complaints.v) = 1

\* C5 as stated: in the scenario the notice line comes right after the
\* separator line and before the request line, the two header lines and the
\* status line.
C5_NoticeBeforeRequestLine ==
    IsNoticedResponseScenario =>
        /\ SubSeq(Lines(outfile), 1, 6) =
              <<"================================", "**** ", ">> ", "++ ", "++ ", "<< ">>
        /\ FirstIndex(outfile, "**** ") < FirstIndex(outfile, ">> ")

\* C5 (amended): in the scenario render_all emits the separator line, then
\* the request line, then the two header lines of the request, then the
\* status line, then the header lines of the response, and only then the
\* notice line: a notice attached to a message is written after that
\* message's lines, so the notice line follows the status line.
C5_NoticeAfterItsMessage ==
    IsNoticedResponseScenario =>
        /\ Lines(outfile) =
              <<"================================", ">> ", "++ ", "++ ", "<< ">>
              \o Copies("++ ", Len(report[1].exchanges[1].responses.v[1].header_entries))
              \o <<"**** ">>
        /\ outfile[1] = "================================"
        /\ FirstIndex(outfile, "<< ") < FirstIndex(outfile, "**** ")
        /\ SubSeq(outfile, FirstIndex(outfile, ">> "), FirstIndex(outfile, ">> ") + 5)
              = <<">> ", "GET", " ", "/", " ", "HTTP/1.1">>
        /\ SubSeq(outfile, FirstIndex(outfile, "<< "), FirstIndex(outfile, "<< ") + 3)
              = <<"<< ", "HTTP/1.1", " ", "200">>
        /\ SubSeq(outfile, FirstIndex(outfile, "**** "), FirstIndex(outfile, "**** ") + 1)
              = <<"**** ", "1000">>

C5_Witness ==
    /\ IsNoticedResponseScenario
    /\ calls = 1
    /\ Count(outfile, "**** ") = 1
    /\ Lines(outfile)[Len(Lines(outfile))] = "**** "

\* The exchanges of the connection rendered have an unparseable request.
IsUnparseableRequestCase ==
    /\ last.op = "render_connection"
    /\ Len(report[1].exchanges) > 0
    /\ report[1].exchanges[1].request.k = "Unparseable"

Indicator(b) == IF b THEN 1 ELSE 0

RECURSIVE SumOver(_, _)
SumOver(f, n) == IF n = 0 THEN 0 ELSE f[n] + SumOver(f, n - 1)

\* C6: for exchanges whose request slot is the Unparseable marker,
\* render_connection emits exactly one "-- (unparseable)" line for the request
\* of each exchange, no ">>" request line and no "++" line for the request,
\* and the responses are rendered as they are without it: the output is that
\* of the same exchange without a request, with the separated marker line put
\* in right after the exchange's notices.
C6_UnparseableRequest ==
    IsUnparseableRequestCase =>
        LET conn == report[1]
            ne == Len(conn.exchanges)
            exch == conn.exchanges[1]
            resps == OrEmpty(exch.responses)
            nU == Cardinality({i \in 1..Len(resps) : resps[i].k = "Unparseable"})
            nP == Len(resps) - nU
            entryLines ==
                SumOver([i \in 1..Len(resps) |->
                            IF resps[i].k = "Unparseable" THEN 0
                            ELSE Len(resps[i].header_entries)
                                 + Len(OrEmpty(resps[i].trailer_entries))],
                        Len(resps))
            fresh == TextReport(FALSE, <<>>, {})
            without ==
                render_connection(
                    fresh, [conn EXCEPT !.exchanges = <<[exch EXCEPT !.request = None]>>]).out
            k == Len(render_notices(write_more(fresh, SeparatorLine), exch).out)
        IN /\ Count(outfile, "-- (unparseable)") = ne * (1 + nU)
           /\ Count(outfile, ">> ") = 0
           /\ Count(outfile, "<< ") = ne * nP
           /\ Count(outfile, "++ ") =
                 ne * entryLines + Indicator(conn.unparsed_inbound > 0)
                 + Indicator(conn.unparsed_outbound > 0)
           /\ ne = 1 =>
                 outfile = SubSeq(without, 1, k) \o <<"\n">> \o UnparseableMarker
                           \o SubSeq(without, k + 1, Len(without))

C6_Witness ==
    /\ IsUnparseableRequestCase
    /\ calls = 1
    /\ report[1].exchanges[1].responses.k = "list"
    /\ Len(report[1].exchanges[1].responses.v) = 1
    /\ report[1].exchanges[1].responses.v[1].k = "response"
    /\ Len(report[1].exchanges[1].responses.v[1].header_entries) = 2
    /\ Count(outfile, "-- (unparseable)") = 1
    /\ Count(outfile, "<< ") = 1

(***************************************************************************)
(* Claims about the piece dispatch (checked under SpecPiece)               *)
(***************************************************************************)

IndexOfTag(nodes, tag) == CHOOSE i \in 1..Len(nodes) : nodes[i].tag = tag
HasTag(nodes, tag) == \E i \in 1..Len(nodes) : nodes[i].tag = tag
CiteNode(info) ==
    El("cite", <<>>,
       <<El("a", <<Attr("href", info.url), Attr("target", "_blank")>>,
            <<Txt(<<info.title>>)>>)>>)

\* C8 as stated: both backends render a Citation as its quote first and the
\* bibliographic part after it, and only the bibliographic part when the
\* contents are empty.
C8_QuoteBeforeInfoInBothBackends ==
    (ppc = "done" /\ cur_piece.k = "cite") =>
        /\ Len(cur_piece.contents) = 0 =>
              (ptext = <<cur_piece.info.title>> /\ phtml = <<CiteNode(cur_piece.info)>>)
        /\ Count(ptext, "[ldquo]") > 0 =>
              FirstIndex(ptext, "[ldquo]") < FirstIndex(ptext, cur_piece.info.title)
        /\ HasTag(phtml, "q") => IndexOfTag(phtml, "q") < IndexOfTag(phtml, "cite")

\* C8 (amended): piece_to_text renders a Citation as its quote (stripped,
\* whitespace collapsed) followed by the bibliographic info in parentheses,
\* or as the info alone when that quote is empty; piece_to_html renders the
\* bibliographic link first, followed by ": " and the quoted contents, or the
\* link alone when the contents are empty.  The two backends emit the quote
\* and the bibliographic part in opposite orders.
C8_CitationOrderPerBackend ==
    (ppc = "done" /\ cur_piece.k = "cite") =>
        LET info == cur_piece.info
            quote == CollapseSpace(Strip(pieces_to_text(cur_piece.contents, Context)))
        IN /\ ptext = IF Len(quote) > 0
                      THEN <<"[ldquo]">> \o quote \o <<"[rdquo] (", info.title, ")">>
                      ELSE <<info.title>>
           /\ Len(quote) > 0 =>
                 FirstIndex(ptext, "[ldquo]") < FirstIndex(ptext, "[rdquo] (")
           /\ phtml[1] = CiteNode(info)
           /\ Len(cur_piece.contents) = 0 => Len(phtml) = 1
           /\ Len(cur_piece.contents) > 0 =>
                 /\ Len(phtml) = 3
                 /\ phtml[2] = El("span", <<>>, <<Txt(<<": ">>)>>)
                 /\ phtml[3].tag = "q"
                 /\ phtml[3].kids = pieces_to_html(cur_piece.contents, Context)

\* A citation with a quote: the text puts the quote first, the hypertext the link.
C8_Witness ==
    /\ ppc = "done"
    /\ cur_piece = Citation(InfoRFC, <<Str(<<"y", " ", "\n", "z">>), Str(<<"x">>)>>)
    /\ ptext = <<"[ldquo]", "y", " ", "z", "x", "[rdquo] (", "RFC 7230", ")">>
    /\ phtml[1].tag = "cite" /\ phtml[3].tag = "q"

(***************************************************************************)
(* Claims about the hypertext renderer (checked under SpecHTML)            *)
(***************************************************************************)

AttrValue(node, name) ==
    IF \E i \in 1..Len(node.attrs) : node.attrs[i][1] = name
    THEN node.attrs[CHOOSE i \in 1..Len(node.attrs) : node.attrs[i][1] = name][2]
    ELSE ""
IsConnectionBlock(n) == n.tag = "div" /\ AttrValue(n, "class") = "Connection "
IsExchangeBlock(n) == n.tag = "div" /\ AttrValue(n, "class") = "Exchange "
IsLeftover(n) ==
    n.tag = "p" /\ AttrValue(n, "class") \in {"unparsed inbound", "unparsed outbound"}

\* The elements of a document in document order.
RECURSIVE Flatten(_)
Flatten(nodes) ==
    IF Len(nodes) = 0 THEN <<>>
    ELSE <<[Head(nodes) EXCEPT !.kids = <<>>]>> \o Flatten(Head(nodes).kids)
         \o Flatten(Tail(nodes))

LeftoverPrecedesExchange(doc) ==
    LET flat == Flatten(doc.body)
    IN \E i \in 1..Len(flat), j \in 1..Len(flat) :
          i < j /\ IsLeftover(flat[i]) /\ IsExchangeBlock(flat[j])

\* C9 as stated: in every document written, the leftover paragraphs come
\* after all connections: none precedes an exchange block.
C9_LeftoversAfterAllConnections ==
    \A n \in 1..Len(htmlout) : ~LeftoverPrecedesExchange(htmlout[n])

AllRendered == ConcatAll(rendered)

\* C9 (amended): the leftover paragraphs of a connection are emitted by
\* render_connection inside that connection's block, after all exchange
\* blocks of that connection (request stream before response stream, each
\* only when nonzero), so with several connections they precede the exchange
\* blocks of the later connections; nothing but connection blocks is put in
\* the document.
C9_LeftoversEndTheirConnection ==
    Len(htmlout) > 0 =>
        LET body == htmlout[Len(htmlout)].body
        IN /\ Len(body) = Len(AllRendered)
           /\ \A i \in 1..Len(body) :
                 LET conn == AllRendered[i]
                     kids == body[i].kids
                     titled == Indicator(Len(kids) > 0 /\ kids[1].tag = "h1")
                     ne == Len(conn.exchanges)
                     classes ==
                        (IF conn.unparsed_inbound > 0 THEN <<"unparsed inbound">> ELSE <<>>)
                        \o (IF conn.unparsed_outbound > 0
                            THEN <<"unparsed outbound">> ELSE <<>>)
                 IN /\ IsConnectionBlock(body[i])
                    /\ AttrValue(body[i], "id") = conn.id
                    /\ Len(kids) = titled + ne + Len(classes)
                    /\ \A j \in 1..ne :
                          /\ IsExchangeBlock(kids[titled + j])
                          /\ AttrValue(kids[titled + j], "id") = conn.exchanges[j].id
                    /\ \A j \in 1..Len(classes) :
                          /\ IsLeftover(kids[titled + ne + j])
                          /\ AttrValue(kids[titled + ne + j], "class") = classes[j]

\* Two connections, the first with leftover bytes: its paragraph precedes the
\* exchange block of the second.
C9_Witness ==
    /\ rendered = <<<<ConnA, ConnB>>>>
    /\ Len(htmlout) = 1
    /\ LeftoverPrecedesExchange(htmlout[1])

\* What a fresh HTMLReport writes for a report.
FreshBody(connections) ==
    HTMLReport_render_all(HTMLReport(NewDocument, <<>>), connections).out[1].body

\* C10: an HTMLReport accumulates its document across render_all calls: the
\* document written by the n-th call holds the connection blocks of every
\* report rendered so far, in call order (so each document extends the one
\* before), where a fresh HTMLReport writes only the blocks of its own report;
\* every call writes exactly one document, the one it has just completed.
C10_DocumentAccumulates ==
    /\ Len(htmlout) = Len(rendered)
    /\ \A n \in 1..Len(htmlout) :
          /\ htmlout[n].head = NewDocument.head
          /\ htmlout[n].body = ConcatAll([m \in 1..n |-> FreshBody(rendered[m])])
          /\ Len(FreshBody(rendered[n])) = Len(rendered[n])
          /\ \A i \in 1..Len(rendered[n]) :
                AttrValue(FreshBody(rendered[n])[i], "id") = rendered[n][i].id
          /\ n > 1 => SubSeq(htmlout[n].body, 1, Len(htmlout[n - 1].body))
                         = htmlout[n - 1].body
    /\ Len(htmlout) > 0 => document = htmlout[Len(htmlout)]

C10_Witness ==
    /\ rendered = <<<<ConnA>>, <<ConnB>>>>
    /\ Len(htmlout) = 2
    /\ Len(htmlout[1].body) = 1
    /\ Len(htmlout[2].body) = 2
    /\ AttrValue(htmlout[2].body[1], "id") = "cA"
    /\ AttrValue(htmlout[2].body[2], "id") = "cB"

(***************************************************************************)
(* Claims about the reference resolver (checked under SpecRef)             *)
(***************************************************************************)

IsPair(v) == v.k = "list" /\ Len(v.items) = 2

\* C4 as stated: every two-element list yields exactly two targets, the i-th
\* being the anchor of the i-th element.
C4_PairYieldsTwoAnchors ==
    (rpc = "done" /\ IsPair(value)) =>
        /\ Len(targets) = 2
        /\ \A i \in 1..2 : targets[i] = Anchor(value.items[i])

\* C4 (amended): a two-element list whose elements are neither header views
\* nor lists yields exactly two targets, the i-th being the anchor of the
\* i-th element; in general a list yields the order-preserving concatenation
\* of reference_targets of its elements, so that an element that is a header
\* view or a list contributes one target per entry or sub-element.
C4_ListConcatenatesTargets ==
    (rpc = "done" /\ value.k = "list") =>
        /\ targets = ConcatAll([i \in 1..Len(value.items) |->
                                   reference_targets(value.items[i])])
        /\ (IsPair(value) /\ \A i \in 1..2 : value.items[i].k = "obj") =>
              targets = <<Anchor(value.items[1]), Anchor(value.items[2])>>
        /\ \A i \in 1..Len(value.items) :
              value.items[i].k = "list" =>
                 reference_targets(value.items[i]) =
                    [j \in 1..Len(value.items[i].items) |->
                        Anchor(value.items[i].items[j])]

\* A pair of a two-entry header view and a plain object: three targets.
C4_Witness ==
    /\ rpc = "done"
    /\ value = List(<<HeaderView(<<Obj(2), Obj(1)>>), Obj(2)>>)
    /\ targets = <<Anchor(Obj(2)), Anchor(Obj(1)), Anchor(Obj(2))>>

(***************************************************************************)
(* Claims about the body display pipeline (checked under SpecBody)         *)
(***************************************************************************)

\* The decoded and placeholder-substituted text, before truncation.
FullText(m) == PrintableStep([r |-> DecodeStep(m).r, t |-> <<>>]).r

Min(a, b) == IF a < b THEN a ELSE b

HasNote(t, n) == \E i \in 1..Len(t) : t[i] = n

\* A body of printable ASCII bytes longer than the limit, UTF-8 declared, no
\* transfer or content encoding announced (so the decoded body is the body).
IsLongAsciiExample(m) ==
    /\ m.body = Bytes(Filler(limit + Extra))
    /\ m.decoded_body = m.body
    /\ ~m.transfer_encoding /\ ~m.content_encoding
    /\ m.charset = "UTF-8"

\* C2: for a present, parseable body the returned text has at most 5000
\* characters, is the first 5000 characters of the decoded and
\* placeholder-substituted text, and the truncation note is in the transform
\* list exactly when that text was longer than 5000; for the long ASCII
\* example the transform list is exactly the truncation note.
C2_Truncation ==
    (bpc = "done" /\ okay(msg.body)) =>
        LET full == FullText(msg)
        IN /\ result.body.k = "text"
           /\ Len(result.body.v) <= 5000
           /\ result.body.v = SubSeq(full, 1, Min(Len(full), 5000))
           /\ HasNote(result.transforms, NoteLimit) <=> Len(full) > 5000
           /\ IsLongAsciiExample(msg) =>
                /\ result.transforms = <<NoteLimit>>
                /\ result.body.v = Filler(5000)

C2_Witness ==
    /\ bpc = "done"
    /\ IsLongAsciiExample(msg)
    /\ result.transforms = <<NoteLimit>>
    /\ Len(result.body.v) = 5000

IsCharsetNote(n) == n[1] = "decoding from "

\* C3: a message declaring the unknown charset "bogus-xyz" is processed
\* exactly as the same message declaring UTF-8: same text, same transform
\* list, and no "decoding from" note.
C3_BogusCharsetAsUtf8 ==
    (bpc = "done" /\ msg.charset = "bogus-xyz") =>
        /\ result = displayable_body([msg EXCEPT !.charset = "UTF-8"])
        /\ \A i \in 1..Len(result.transforms) : ~IsCharsetNote(result.transforms[i])

\* A body whose UTF-8 and single-byte decodings differ, decoded under the
\* declared charset "bogus-xyz".
C3_Witness ==
    /\ bpc = "done"
    /\ msg.charset = "bogus-xyz"
    /\ okay(msg.body) /\ okay(msg.decoded_body)
    /\ msg.decoded_body.v = <<"C3", "A9">>
    /\ result.body = Text(<<"U+00E9">>)

Rank(n) ==
    CASE n = NoteTE -> 1
      [] n = NoteCE -> 2
      [] IsCharsetNote(n) -> 3
      [] n = NotePrintable -> 4
      [] n = NoteLimit -> 5
      [] OTHER -> 0

\* C7: the transform list is a subsequence of the fixed order (removing
\* Transfer-Encoding, removing Content-Encoding, decoding from <charset>,
\* replacing non-printable characters, taking the first 5000 characters),
\* each note at most once; an absent or unparseable body is returned
\* unchanged with an empty transform list whatever encodings are announced.
C7_TransformOrder ==
    bpc = "done" =>
        LET t == result.transforms
        IN /\ \A i \in 1..Len(t) : Rank(t[i]) \in 1..5
           /\ \A i \in 1..Len(t), j \in 1..Len(t) : i < j => Rank(t[i]) < Rank(t[j])
           /\ ~okay(msg.body) => (result.body = msg.body /\ t = <<>>)

\* All five notes at once.
C7_Witness ==
    /\ bpc = "done"
    /\ Len(result.transforms) = 5
    /\ result.transforms[1] = NoteTE
    /\ result.transforms[5] = NoteLimit

====
